---- MODULE Spec2Model ----
(***************************************************************************)
(* Model of explicitGA/attention.py: the negative-edge sampler             *)
(* (negative_sampling, batch_negative_sampling) and the ExplicitGAT layer. *)
(*                                                                         *)
(* Conventions.  Node ids, batch ids and linear indices are 0-based as in  *)
(* the source; positions inside a tensor are the 1-based positions of a    *)
(* TLA+ sequence (position p here is index p-1 in the source).  A [2, E]   *)
(* edge tensor is a sequence of E pairs <<src, dst>>.  An optional         *)
(* argument is <<>> for None and <<v>> for the value v.                    *)
(***************************************************************************)
EXTENDS Integers, Sequences, FiniteSets, TLC

VARIABLES
    pc,                   \* where the running call stands
    err,                  \* the exception that ended the call, "" if none
    pos_edge_index,       \* batch_negative_sampling: argument
    num_nodes,            \* batch_negative_sampling: argument (optional)
    batch,                \* batch_negative_sampling: argument (optional)
    max_num_samples,      \* batch_negative_sampling: argument (optional)
    num_nodes_list,       \* size of every subgraph
    pos_edge_index_list,  \* relabelled positive edges of every subgraph
    g,                    \* position of the for loop of line 63
    prev_node_idx,        \* offset of the subgraph being sampled
    neg_edges_index_list, \* the offset samples of the subgraphs done
    perm,                 \* negative_sampling: the drawn linear indices
    rest,                 \* negative_sampling: the positions to redraw
    neg_edges_index,      \* batch_negative_sampling: the returned tensor
    is_explicit,          \* ExplicitGAT: constructor argument
    training,             \* ExplicitGAT: torch module mode flag
    cached_pos_alpha,     \* ExplicitGAT: field (optional)
    x,                    \* forward: the projected features
    arg_edge_index,       \* forward: the edge_index argument as passed
    size,                 \* forward: argument (optional)
    edge_index,           \* forward: edge_index after lines 125-127
    propagated,           \* forward: first component of the return value
    residuals,            \* forward: second component, <<>> for {}
    stale                 \* history: the running call of forward found in
                          \* cached_pos_alpha weights other than its own

svars == <<pc, err, pos_edge_index, num_nodes, batch, max_num_samples,
           num_nodes_list, pos_edge_index_list, g, prev_node_idx,
           neg_edges_index_list, perm, rest, neg_edges_index>>

lvars == <<is_explicit, training, cached_pos_alpha, x, arg_edge_index, size,
           edge_index, propagated, residuals, stale>>

vars == <<svars, lvars>>

----------------------------------------------------------------------------
(* Bounds of the direct calls of the sampler. *)
MaxNodes == 2
MaxEdges == 2
MaxReq == 2
MaxBatchId == 1

(* Bounds of the batched calls of the sampler. *)
BatchLen == 4
BatchEdges == 1

----------------------------------------------------------------------------
(* Tensor helpers. *)

Min(a, b) == IF a <= b THEN a ELSE b

Range(s) == {s[i] : i \in DOMAIN s}

Iota(n) == [i \in 1..n |-> i]

\* torch.cat(list, dim=1)
RECURSIVE Cat(_)
Cat(list) == IF list = <<>> THEN <<>> ELSE Head(list) \o Cat(Tail(list))

\* idx of line 22: the linear indices of the positive edges
LinearIdx(pos, n) == {e[1] * n + e[2] : e \in Range(pos)}

\* max_num_samples or pos_edge_index.size(1), line 18: None and 0 are falsy
OrDefault(req, dflt) == IF req = <<>> \/ req[1] = 0 THEN dflt ELSE req[1]

\* num_samples of lines 18-20
NumSamples(pos, n, req) ==
    Min(OrDefault(req, Len(pos)), n * n - Len(pos))

\* random.sample(range(population), k): every ordered choice of k distinct values
RandomSample(population, k) ==
    {s \in [1..k -> 0..(population - 1)] :
        \A i, j \in 1..k : i # j => s[i] # s[j]}

\* np.isin(values, idx) followed by mask.nonzero().view(-1)
Collisions(values, idx) ==
    SelectSeq(Iota(Len(values)), LAMBDA p : values[p] \in idx)

\* perm[rest] = tmp, line 32
IndexPut(target, positions, values) ==
    [p \in DOMAIN target |->
        IF \E q \in DOMAIN positions : positions[q] = p
        THEN values[CHOOSE q \in DOMAIN positions : positions[q] = p]
        ELSE target[p]]

\* rest after one redraw round, line 33: the nonzero positions of the mask of tmp
NextRest(old_rest, tmp, idx) == Collisions(tmp, idx)

\* lines 35-36: row, col = perm / num_nodes, perm % num_nodes
Decode(p, n) == [i \in DOMAIN p |-> <<p[i] \div n, p[i] % n>>]

\* the offset added to the source row alone
OffsetSourcesOnly(edges, off) == [i \in DOMAIN edges |-> <<edges[i][1] + off, edges[i][2]>>]

\* neg_edges_index += prev_node_idx, line 67
Offset(edges, off) == [i \in DOMAIN edges |-> <<edges[i][1] + off, edges[i][2] + off>>]

\* torch.nonzero(batch == b).squeeze(): the nodes of subgraph b, ascending
NodesOf(bvec, b) ==
    SelectSeq([i \in 1..Len(bvec) |-> i - 1], LAMBDA v : bvec[v + 1] = b)

\* batch.max() + 1
NumGraphs(bvec) == (CHOOSE m \in Range(bvec) : \A v \in Range(bvec) : v <= m) + 1

\* maybe_num_nodes(edge_index) inside subgraph: the largest node id plus one
MaybeNumNodes(edges) ==
    IF edges = <<>> THEN 0
    ELSE LET ids == UNION {{e[1], e[2]} : e \in Range(edges)}
         IN  (CHOOSE m \in ids : \A v \in ids : v <= m) + 1

\* the exceptions of subgraph(nodes, edges, relabel_nodes=True): its node mask
\* has MaybeNumNodes(edges) entries, and a node beyond it cannot be marked; the
\* largest id of no edge at all is an error of its own in some versions
SubgraphErrors(nodes, edges) ==
    (IF \E p \in DOMAIN nodes : nodes[p] >= MaybeNumNodes(edges)
     THEN {"IndexError"} ELSE {})
    \cup (IF edges = <<>> THEN {"RuntimeError"} ELSE {})

\* torch_geometric.utils.subgraph(nodes, edges, relabel_nodes=True)[0]:
\* keeps the edges with both endpoints in nodes and renumbers them by rank
Subgraph(nodes, edges) ==
    LET Rank(v) == (CHOOSE p \in DOMAIN nodes : nodes[p] = v) - 1
        kept == SelectSeq(edges, LAMBDA e : e[1] \in Range(nodes) /\ e[2] \in Range(nodes))
    IN  [i \in DOMAIN kept |-> <<Rank(kept[i][1]), Rank(kept[i][2])>>]

----------------------------------------------------------------------------
(* batch_negative_sampling and negative_sampling, step by step. *)

Raise(e) ==
    /\ pc' = "error"
    /\ err' = e

\* lines 50-62: the assertion and the partition into subgraphs
Partition ==
    /\ UNCHANGED lvars
    /\ pc = "call"
    /\ UNCHANGED <<pos_edge_index, num_nodes, batch, max_num_samples,
                   perm, rest, neg_edges_index>>
    /\ IF num_nodes = <<>> /\ batch = <<>>
       THEN /\ Raise("AssertionError")
            /\ UNCHANGED <<num_nodes_list, pos_edge_index_list, g,
                           prev_node_idx, neg_edges_index_list>>
       ELSE IF batch # <<>> /\ Len(batch[1]) = 0
       THEN \* batch.max() of an empty tensor
            /\ Raise("RuntimeError")
            /\ UNCHANGED <<num_nodes_list, pos_edge_index_list, g,
                           prev_node_idx, neg_edges_index_list>>
       ELSE IF batch # <<>>
                /\ \E b \in 0..(NumGraphs(batch[1]) - 1) : Len(NodesOf(batch[1], b)) = 1
       THEN \* squeeze() of one node is a 0-d tensor and len() of it raises
            /\ Raise("TypeError")
            /\ UNCHANGED <<num_nodes_list, pos_edge_index_list, g,
                           prev_node_idx, neg_edges_index_list>>
       ELSE IF batch # <<>>
                /\ \E b \in 0..(NumGraphs(batch[1]) - 1) :
                      SubgraphErrors(NodesOf(batch[1], b), pos_edge_index) # {}
       THEN \* the first subgraph that subgraph() cannot extract
            /\ LET b == CHOOSE c \in 0..(NumGraphs(batch[1]) - 1) :
                          /\ SubgraphErrors(NodesOf(batch[1], c), pos_edge_index) # {}
                          /\ \A d \in 0..(c - 1) :
                                SubgraphErrors(NodesOf(batch[1], d), pos_edge_index) = {}
               IN  \E e \in SubgraphErrors(NodesOf(batch[1], b), pos_edge_index) :
                      Raise(e)
            /\ UNCHANGED <<num_nodes_list, pos_edge_index_list, g,
                           prev_node_idx, neg_edges_index_list>>
       ELSE /\ IF batch # <<>>
               THEN LET nodes_list == [b \in 1..NumGraphs(batch[1]) |->
                                          NodesOf(batch[1], b - 1)]
                    IN  /\ num_nodes_list' = [b \in DOMAIN nodes_list |->
                                                 Len(nodes_list[b])]
                        /\ pos_edge_index_list' = [b \in DOMAIN nodes_list |->
                                                      Subgraph(nodes_list[b], pos_edge_index)]
               ELSE /\ num_nodes_list' = <<num_nodes[1]>>
                    /\ pos_edge_index_list' = <<pos_edge_index>>
            /\ neg_edges_index_list' = <<>>
            /\ prev_node_idx' = 0
            /\ g' = 1
            /\ pc' = "graph"
            /\ err' = err

\* lines 63-66 and 17-28: enter negative_sampling for the next subgraph
Sample ==
    /\ UNCHANGED lvars
    /\ pc = "graph"
    /\ g <= Len(num_nodes_list)
    /\ UNCHANGED <<pos_edge_index, num_nodes, batch, max_num_samples,
                   num_nodes_list, pos_edge_index_list, g, prev_node_idx,
                   neg_edges_index_list, neg_edges_index>>
    /\ LET n   == num_nodes_list[g]
           pos == pos_edge_index_list[g]
           k   == NumSamples(pos, n, max_num_samples)
       IN  IF k < 0 \/ k > n * n
           THEN \* random.sample: sample larger than population or is negative
                /\ Raise("ValueError")
                /\ UNCHANGED <<perm, rest>>
           ELSE /\ \E s \in RandomSample(n * n, k) :
                      /\ perm' = s
                      /\ rest' = Collisions(s, LinearIdx(pos, n))
                /\ pc' = "loop"
                /\ err' = err

\* lines 29-33: one round of the while loop
Redraw ==
    /\ UNCHANGED lvars
    /\ pc = "loop"
    /\ Len(rest) > 0
    /\ UNCHANGED <<pc, err, pos_edge_index, num_nodes, batch, max_num_samples,
                   num_nodes_list, pos_edge_index_list, g, prev_node_idx,
                   neg_edges_index_list, neg_edges_index>>
    /\ LET n   == num_nodes_list[g]
           idx == LinearIdx(pos_edge_index_list[g], n)
       IN  \E tmp \in RandomSample(n * n, Len(rest)) :
              /\ perm' = IndexPut(perm, rest, tmp)
              /\ rest' = NextRest(rest, tmp, idx)

\* lines 35-36 and 67-69: negative_sampling returns, the result is offset and kept
Return ==
    /\ UNCHANGED lvars
    /\ pc = "loop"
    /\ Len(rest) = 0
    /\ UNCHANGED <<err, pos_edge_index, num_nodes, batch, max_num_samples,
                   num_nodes_list, pos_edge_index_list, perm, rest, neg_edges_index>>
    /\ neg_edges_index_list' =
          Append(neg_edges_index_list,
                 Offset(Decode(perm, num_nodes_list[g]), prev_node_idx))
    /\ prev_node_idx' = prev_node_idx + num_nodes_list[g]
    /\ g' = g + 1
    /\ pc' = "graph"

\* lines 70-71
Concat ==
    /\ UNCHANGED lvars
    /\ pc = "graph"
    /\ g > Len(num_nodes_list)
    /\ UNCHANGED <<err, pos_edge_index, num_nodes, batch, max_num_samples,
                   num_nodes_list, pos_edge_index_list, g, prev_node_idx,
                   neg_edges_index_list, perm, rest>>
    /\ neg_edges_index' = Cat(neg_edges_index_list)
    /\ pc' = "done"

----------------------------------------------------------------------------
(* The ExplicitGAT layer.  Feature values are symbolic: the projected       *)
(* features are named by their form and node count, an attention weight by  *)
(* the edge it belongs to and the softmax group it was normalised in.       *)

\* remove_self_loops(edge_index), line 126
RemoveSelfLoops(edges) == SelectSeq(edges, LAMBDA e : e[1] # e[2])

\* add_self_loops(edge_index, num_nodes=n), line 127
AddSelfLoops(edges, n) == edges \o [v \in 1..n |-> <<v - 1, v - 1>>]

\* line 127 without line 126
AddWithoutRemove(edges, n) == AddSelfLoops(edges, n)

\* lines 125-127
NormalizeSelfLoops(edges, n) == AddSelfLoops(RemoveSelfLoops(edges), n)

\* lines 125-127 with their guard
ForwardEdges(kind, sz, edges, n) ==
    IF sz = <<>> /\ kind = "tensor" THEN NormalizeSelfLoops(edges, n) ELSE edges

\* lines 130-134: torch.matmul(x, self.weight)
Project(kind, n) == [kind |-> kind, n |-> n]

\* _get_attention, lines 195-213: one weight per edge, normalised by the softmax
\* over the edges of the same destination
GetAttention(edges, xv) ==
    [k \in DOMAIN edges |->
        [j |-> edges[k][1], i |-> edges[k][2], x |-> xv,
         group |-> SelectSeq(edges, LAMBDA e : e[2] = edges[k][2])]]

\* F.dropout(alpha_1, p=self.dropout, training=self.training), line 176
Dropout(alpha, mode) == IF mode THEN <<"dropout", alpha>> ELSE <<"kept", alpha>>

\* lines 179 and 181-193: the weighted messages, aggregated and updated
Aggregate(xv, alpha) == [x |-> xv, alpha |-> alpha]

\* a cache that is filled once and then kept
MessageCacheKeep(old, alpha_1) == IF old = <<>> THEN <<alpha_1>> ELSE old

\* message, line 173: the value stored in self.cached_pos_alpha
MessageCache(old, alpha_1) == <<alpha_1>>

\* _get_attention_with_negatives, lines 215-238
GetAttentionWithNegatives(edges, neg, xv) ==
    LET total_edge_index == edges \o neg
    IN  IF Len(neg) <= 0 THEN <<>> ELSE GetAttention(total_edge_index, xv)

\* self.att_scaling * total_alpha + self.att_bias, line 149
Calibrate(alpha) == [k \in DOMAIN alpha |-> <<"scaled", alpha[k]>>]

\* self.cached_pos_alpha after _get_attention_with_negatives has run
CacheAfterRescoring(cache, total_alpha) == cache

(* Bounds of the calls of forward. *)
LayerNodes == 2
LayerEdges == 2

Cells(n) == {<<s, d>> : s, d \in 0..(n - 1)}

\* edge lists over n nodes of at most maxlen edges, duplicates allowed,
\* listed in the order of their linear indices
EdgeLists(n, maxlen) ==
    UNION {{s \in [1..len -> Cells(n)] :
              \A i \in 1..(len - 1) :
                 s[i][1] * n + s[i][2] <= s[i + 1][1] * n + s[i + 1][2]}
           : len \in 0..maxlen}

\* the cells of an n-node graph that are no self-loop, in row-major order
NonLoopCells(n) ==
    SelectSeq([i \in 1..(n * n) |-> <<(i - 1) \div n, (i - 1) % n>>],
              LAMBDA e : e[1] # e[2])

\* the edge lists forward is called with: none, or c copies of the self-loop
\* of node 0 followed by the first cells that are no self-loop, LayerEdges
\* edges in all where the graph has that many
LayerEdgeLists(n) ==
    {<<>>} \cup
    {[i \in 1..c |-> <<0, 0>>]
        \o SubSeq(NonLoopCells(n), 1, Min(LayerEdges - c, Len(NonLoopCells(n)))) :
        c \in 0..(IF n = 0 THEN 0 ELSE LayerEdges)}

\* the batch vectors forward is called with: none, or two graphs of half the nodes
LayerBatches(n) ==
    {<<>>, <<[v \in 1..n |-> IF 2 * v <= n THEN 0 ELSE 1]>>}

\* module.train() and module.eval(), between two calls
Train ==
    /\ pc = "idle"
    /\ training' = ~training
    /\ UNCHANGED <<svars, is_explicit, cached_pos_alpha, x, arg_edge_index, size,
                   edge_index, propagated, residuals, stale>>

\* forward, lines 123-143: up to the call of batch_negative_sampling
ForwardBegin ==
    /\ pc = "idle"
    /\ \E kind \in {"tensor", "pair"}, n \in 0..LayerNodes :
       \E e \in LayerEdgeLists(n), sz \in {<<>>, <<n>>}, b \in LayerBatches(n) :
          LET used    == ForwardEdges(kind, sz, e, n)
              xv      == Project(kind, n)
              alpha_1 == GetAttention(used, xv)
          IN  /\ arg_edge_index' = e
              /\ size' = sz
              /\ edge_index' = used
              /\ x' = xv
              /\ cached_pos_alpha' = MessageCache(cached_pos_alpha, alpha_1)
              /\ stale' = (cached_pos_alpha # <<>> /\ cached_pos_alpha # <<alpha_1>>)
              /\ propagated' = <<Aggregate(xv, Dropout(alpha_1, training))>>
              /\ batch' = b
              /\ IF training /\ is_explicit
                 THEN IF kind = "pair"
                      THEN \* x.size(0) of a tuple, line 141
                           /\ Raise("AttributeError")
                           /\ UNCHANGED <<pos_edge_index, num_nodes, max_num_samples>>
                      ELSE /\ pos_edge_index' = used
                           /\ num_nodes' = <<n>>
                           /\ max_num_samples' = <<>>
                           /\ pc' = "call"
                           /\ err' = ""
                 ELSE /\ pc' = "returned"
                      /\ err' = ""
                      /\ UNCHANGED <<pos_edge_index, num_nodes, max_num_samples>>
    /\ residuals' = <<>>
    /\ UNCHANGED <<num_nodes_list, pos_edge_index_list, g, prev_node_idx,
                   neg_edges_index_list, perm, rest, neg_edges_index,
                   is_explicit, training>>

\* forward, lines 144-156: after batch_negative_sampling has returned
ForwardEnd ==
    /\ pc = "done"
    /\ LET total_alpha == GetAttentionWithNegatives(edge_index, neg_edges_index, x)
       IN  /\ cached_pos_alpha' = CacheAfterRescoring(cached_pos_alpha, total_alpha)
           /\ residuals' = <<[total_alpha |-> Calibrate(total_alpha),
                              pos_alpha |-> cached_pos_alpha']>>
    /\ pc' = "returned"
    /\ UNCHANGED <<err, pos_edge_index, num_nodes, batch, max_num_samples,
                   num_nodes_list, pos_edge_index_list, g, prev_node_idx,
                   neg_edges_index_list, perm, rest, neg_edges_index,
                   is_explicit, training, x, arg_edge_index, size, edge_index,
                   propagated, stale>>

----------------------------------------------------------------------------
(* Initial states. *)

SamplerLocals ==
    /\ err = ""
    /\ num_nodes_list = <<>>
    /\ pos_edge_index_list = <<>>
    /\ g = 0
    /\ prev_node_idx = 0
    /\ neg_edges_index_list = <<>>
    /\ perm = <<>>
    /\ rest = <<>>
    /\ neg_edges_index = <<>>

NoCall ==
    /\ pos_edge_index = <<>>
    /\ num_nodes = <<>>
    /\ batch = <<>>
    /\ max_num_samples = <<>>

ForwardLocals ==
    /\ x = <<>>
    /\ arg_edge_index = <<>>
    /\ size = <<>>
    /\ edge_index = <<>>
    /\ propagated = <<>>
    /\ residuals = <<>>
    /\ stale = FALSE

\* no layer is involved in a direct call of the sampler
NoLayer ==
    /\ is_explicit = TRUE
    /\ training = TRUE
    /\ cached_pos_alpha = <<>>
    /\ ForwardLocals

\* forward has returned or raised: its frame and that of the sampler are gone
Collect ==
    /\ pc \in {"returned", "error"}
    /\ pc' = "idle"
    /\ err' = ""
    /\ num_nodes_list' = <<>>
    /\ pos_edge_index_list' = <<>>
    /\ g' = 0
    /\ prev_node_idx' = 0
    /\ neg_edges_index_list' = <<>>
    /\ perm' = <<>>
    /\ rest' = <<>>
    /\ neg_edges_index' = <<>>
    /\ pos_edge_index' = <<>>
    /\ num_nodes' = <<>>
    /\ batch' = <<>>
    /\ max_num_samples' = <<>>
    /\ x' = <<>>
    /\ arg_edge_index' = <<>>
    /\ size' = <<>>
    /\ edge_index' = <<>>
    /\ propagated' = <<>>
    /\ residuals' = <<>>
    /\ stale' = FALSE
    /\ UNCHANGED <<is_explicit, training, cached_pos_alpha>>

Requests == {<<>>} \cup {<<r>> : r \in 0..MaxReq}

\* a direct call of batch_negative_sampling
Init ==
    /\ pc = "call"
    /\ SamplerLocals
    /\ NoLayer
    /\ max_num_samples \in Requests
    /\ \E n \in 0..MaxNodes :
          /\ pos_edge_index \in EdgeLists(n, MaxEdges)
          /\ \/ /\ batch = <<>>
                /\ num_nodes \in {<<>>, <<n>>}
             \/ /\ batch \in {<<b>> : b \in [1..n -> 0..MaxBatchId]}
                /\ num_nodes = <<n>>

Next ==
    \/ Partition
    \/ Sample
    \/ Redraw
    \/ Return
    \/ Concat

Spec == Init /\ [][Next]_vars

\* a call that is running keeps running
SpecFair == Spec /\ WF_vars(Next)

\* a batched call of batch_negative_sampling with the default request
InitBatch ==
    /\ pc = "call"
    /\ SamplerLocals
    /\ NoLayer
    /\ max_num_samples = <<>>
    /\ \E n \in 0..BatchLen :
          /\ pos_edge_index \in EdgeLists(n, BatchEdges)
          /\ batch \in {<<b>> : b \in [1..n -> 0..MaxBatchId]}
          /\ num_nodes = <<n>>

SpecBatch == InitBatch /\ [][Next]_vars

\* a layer after __init__, lines 76-106
InitLayer ==
    /\ pc = "idle"
    /\ SamplerLocals
    /\ NoCall
    /\ ForwardLocals
    /\ is_explicit \in BOOLEAN
    /\ training = TRUE
    /\ cached_pos_alpha = <<>>

NextLayer ==
    \/ Train
    \/ ForwardBegin
    \/ Partition
    \/ Sample
    \/ Redraw
    \/ Return
    \/ Concat
    \/ ForwardEnd
    \/ Collect

SpecLayer == InitLayer /\ [][NextLayer]_vars

----------------------------------------------------------------------------
(* Properties. *)

\* negative_sampling is about to return perm for subgraph g
AtReturn == pc = "loop" /\ Len(rest) = 0

\* the pairs negative_sampling returns, lines 35-36
Returned == Decode(perm, num_nodes_list[g])

\* C1: no pair returned by negative_sampling is in the positive edge list of
\* its subgraph, whatever the draws and the number of redraw rounds.
C1_Disjoint ==
    AtReturn => \A i \in DOMAIN Returned :
                   Returned[i] \notin Range(pos_edge_index_list[g])

IsSorted(bvec) == \A i \in 1..(Len(bvec) - 1) : bvec[i] <= bvec[i + 1]

SameGraph(bvec, e) == bvec[e[1] + 1] = bvec[e[2] + 1]

\* C2, as stated: for every batch vector, both endpoints of every negative
\* edge returned by batch_negative_sampling have the same batch id.
C2_NoCrossing ==
    (pc = "done" /\ batch # <<>>) =>
        \A i \in DOMAIN neg_edges_index : SameGraph(batch[1], neg_edges_index[i])

\* C2, amended: for every batch vector whose ids are in non-decreasing order,
\* both endpoints of every negative edge returned by batch_negative_sampling
\* have the same batch id.
C2_NoCrossingSorted ==
    (pc = "done" /\ batch # <<>> /\ IsSorted(batch[1])) =>
        \A i \in DOMAIN neg_edges_index : SameGraph(batch[1], neg_edges_index[i])

\* a sorted batch of two graphs has returned a negative edge of its second graph
C2_Witness ==
    /\ pc = "done"
    /\ batch # <<>>
    /\ IsSorted(batch[1])
    /\ \E i \in DOMAIN neg_edges_index :
          /\ batch[1][neg_edges_index[i][1] + 1] = 1
          /\ batch[1][1] = 0

\* the count asked for: the argument, the number of positive edges without it
Requested(pos) == IF max_num_samples = <<>> THEN Len(pos) ELSE max_num_samples[1]

\* C3: negative_sampling returns exactly min(requested, n*n - |P|) edges for a
\* subgraph, and a batched call returns the sum of these counts.
C3_Count ==
    /\ AtReturn =>
          (Len(Returned) = Min(Requested(pos_edge_index_list[g]),
                               num_nodes_list[g] * num_nodes_list[g]
                                  - Len(pos_edge_index_list[g])))
    /\ pc = "done" =>
          (/\ Len(neg_edges_index_list) = Len(num_nodes_list)
           /\ Len(neg_edges_index) = Len(Cat(neg_edges_index_list)))

\* C4: the pairs returned by negative_sampling are pairwise distinct.
C4_Distinct ==
    AtReturn => \A i, j \in DOMAIN Returned : i # j => Returned[i] # Returned[j]

\* C5: every call of the sampler ends, by returning or by raising; the redraw
\* loop never runs forever.
C5_Terminates == <>(pc \in {"done", "error"})

HasCrossEdge(bvec, edges) == \E i \in DOMAIN edges : ~SameGraph(bvec, edges[i])

\* C6: a batched call whose positive edge list holds an edge between two
\* subgraphs does not return: it ends in an error.
C6_CrossEdgeRaises ==
    (pc = "done" /\ batch # <<>>) => ~HasCrossEdge(batch[1], pos_edge_index)

\* a batch vector with a subgraph of at most one node whose positive edges
\* subgraph() can extract
DegenerateBatch ==
    /\ batch # <<>>
    /\ Len(batch[1]) > 0
    /\ \E b \in 0..(NumGraphs(batch[1]) - 1) : Len(NodesOf(batch[1], b)) <= 1
    /\ \A b \in 0..(NumGraphs(batch[1]) - 1) :
          SubgraphErrors(NodesOf(batch[1], b), pos_edge_index) = {}

\* C8: no positive edges, a requested count of zero and a subgraph of at most
\* one node each give no negative edge for that subgraph, and no error.
C8_Degenerate ==
    /\ (DegenerateBatch => pc # "error")
    /\ (/\ AtReturn
        /\ \/ num_nodes_list[g] <= 1
           \/ max_num_samples = <<0>>
           \/ Len(pos_edge_index_list[g]) = 0 /\ max_num_samples = <<>>)
       => Len(Returned) = 0

----------------------------------------------------------------------------
(* Properties of the layer. *)

\* the edges whose weights the running call aggregated
AggregatedEdges ==
    LET a == propagated[1].alpha[2]
    IN  [k \in DOMAIN a |-> <<a[k].j, a[k].i>>]

Count(edges, e) == Cardinality({k \in DOMAIN edges : edges[k] = e})

\* C7: with one feature matrix and no size hint the aggregated edge list has
\* exactly one self-loop per node and the other input edges unchanged, and
\* normalising it again changes nothing; otherwise it is the input edge list.
C7_SelfLoops ==
    pc # "idle" =>
        IF size = <<>> /\ x.kind = "tensor"
        THEN /\ \A v \in 0..(x.n - 1) : Count(AggregatedEdges, <<v, v>>) = 1
             /\ Len(AggregatedEdges) - Len(RemoveSelfLoops(AggregatedEdges)) = x.n
             /\ RemoveSelfLoops(AggregatedEdges) = RemoveSelfLoops(arg_edge_index)
             /\ NormalizeSelfLoops(AggregatedEdges, x.n) = AggregatedEdges
        ELSE AggregatedEdges = arg_edge_index

\* forward normalised an input with a duplicate self-loop
C7_Witness ==
    /\ pc # "idle"
    /\ size = <<>>
    /\ x.kind = "tensor"
    /\ x.n = 2
    /\ Count(arg_edge_index, <<0, 0>>) = 2

\* C9: in training and explicit mode total_alpha has one row per edge of the
\* positive list followed by the negative list, also when the latter is empty.
C9_Rows ==
    (pc = "returned" /\ residuals # <<>>) =>
        LET t     == residuals[1].total_alpha
            total == edge_index \o neg_edges_index
        IN  /\ Len(t) = Len(edge_index) + Len(neg_edges_index)
            /\ \A k \in DOMAIN t : <<t[k][2].j, t[k][2].i>> = total[k]

\* C10: the pos_alpha of a result bundle is the weights before dropout that
\* the same call aggregated, whatever an earlier call left in the cache and
\* whatever the scoring of the combined edge list computed.
C10_SameCall ==
    (pc = "returned" /\ residuals # <<>>) =>
        /\ residuals[1].pos_alpha = <<GetAttention(edge_index, x)>>
        /\ residuals[1].pos_alpha = <<propagated[1].alpha[2]>>

\* a call that found other weights in the cache returned a bundle after
\* scoring negative edges
C10_Witness ==
    /\ pc = "returned"
    /\ residuals # <<>>
    /\ stale
    /\ Len(neg_edges_index) > 0

====
